---- MODULE Spec2Model ----
(***************************************************************************)
(* Model of AssignmentStore (src/app.py): a table of assignment ranges     *)
(* [daf, daf_end] per masechet kept in SQLite, with overlap validation on  *)
(* create/update/replace and point-targeted split on mark-unit and         *)
(* remove-unit.                                                            *)
(*                                                                         *)
(* The table is the set `rows`; `seq` is the AUTOINCREMENT counter         *)
(* (sqlite_sequence), which a rollback restores together with the rows;    *)
(* `ever` is the set of ids that a committed row has held at any time.     *)
(* Text values are sequences of one-character strings so that str.strip()  *)
(* is computed, not assumed.                                               *)
(***************************************************************************)
EXTENDS Integers, Sequences, FiniteSets, TLC

VARIABLES rows, seq, last, steps, pc, loc, hist, ever

vars == <<rows, seq, last, steps, pc, loc, hist, ever>>

----------------------------------------------------------------------------
(* Bounds of the model *)

MaxDaf == 3
MaxId == 4
MaxSteps == 2

Dafs == 1..MaxDaf
Ids == 1..MaxId

NoId == 0

----------------------------------------------------------------------------
(* Payload values as JSON gives them: a text field is None or a string, a  *)
(* numeric field is None, an integer or a non-numeric string, an optional  *)
(* field is absent from the dict or present.                               *)

NoneT == [k |-> "none", v |-> <<>>]
StrV(s) == [k |-> "str", v |-> s]
AbsentT == [k |-> "absent", v |-> <<>>]

NoneN == [k |-> "none", v |-> 0]
IntV(n) == [k |-> "int", v |-> n]
BadN == [k |-> "str", v |-> 0]

AbsentF == [k |-> "absent", v |-> FALSE]
Flag(b) == [k |-> "val", v |-> b]

TxtA == <<"A">>
TxtB == <<"B">>
TxtPadA == <<" ", "A">>
TxtBlank == <<" ", " ">>
TxtN1 == <<"n", "1">>
TxtPadN2 == <<" ", "n", "2", " ">>
TxtN2 == <<"n", "2">>
TxtD == <<"d">>

RECURSIVE LStrip(_)
LStrip(s) == IF s # <<>> /\ Head(s) = " " THEN LStrip(Tail(s)) ELSE s

RECURSIVE RStrip(_)
RStrip(s) ==
    IF s # <<>> /\ s[Len(s)] = " " THEN RStrip(SubSeq(s, 1, Len(s) - 1)) ELSE s

Strip(s) == RStrip(LStrip(s))

(* Python truthiness of payload.get(key): None and "" are falsy *)
Truthy(t) == t.k = "str" /\ t.v # <<>>

(* `x or y` on two .get() results *)
OrElse(t, d) == IF Truthy(t) THEN t ELSE d

(* `str(x).strip() if x is not None else ""` *)
StrStrip(t) == IF t.k = "str" THEN Strip(t.v) ELSE <<>>

(* defaults = {} : every .get() is None, every `in` is false *)
NoDefaults ==
    [masechet |-> NoneT, name |-> NoneT, daf |-> NoneN, daf_end |-> NoneN,
     dedication |-> NoneT, learned |-> Flag(FALSE), is_full_masechet |-> Flag(FALSE)]

(* faulty variant: the stored daf_end is not among the defaults *)
DefaultsOf_NoEnd(r) ==
    [masechet |-> StrV(r.masechet), name |-> StrV(r.name), daf |-> IntV(r.daf),
     daf_end |-> NoneN, dedication |-> StrV(r.dedication),
     learned |-> Flag(r.learned), is_full_masechet |-> Flag(r.is_full_masechet)]

(* defaults = existing : the dict _row_to_dict built for the stored row *)
DefaultsOf(r) ==
    [masechet |-> StrV(r.masechet), name |-> StrV(r.name), daf |-> IntV(r.daf),
     daf_end |-> IntV(r.daf_end), dedication |-> StrV(r.dedication),
     learned |-> Flag(r.learned), is_full_masechet |-> Flag(r.is_full_masechet)]

NoRecord ==
    [masechet |-> <<>>, name |-> <<>>, daf |-> 0, daf_end |-> 0,
     dedication |-> <<>>, learned |-> FALSE, is_full_masechet |-> FALSE]

(* _parse_payload: [err, rec]; err is "none" or "ValueError" *)
ParsePayload(p, require_fields, defaults) ==
    LET masechet == StrStrip(OrElse(p.masechet, defaults.masechet))
        name == StrStrip(OrElse(p.name, defaults.name))
        daf == IF p.daf.k = "none" THEN defaults.daf ELSE p.daf
        daf_end == IF p.daf_end.k = "none" THEN defaults.daf_end ELSE p.daf_end
        dedication == IF p.dedication.k # "absent" THEN p.dedication
                      ELSE defaults.dedication
        learned == IF p.learned.k # "absent" THEN p.learned.v ELSE defaults.learned.v
        is_full == IF p.is_full_masechet.k # "absent" THEN p.is_full_masechet.v
                   ELSE defaults.is_full_masechet.v
        missing == require_fields /\ (masechet = <<>> \/ name = <<>> \/ daf.k = "none")
        bad_daf == daf.k # "int"
        daf_value == daf.v
        bad_end == daf_end.k = "str"
        daf_end_value == IF daf_end.k = "none" THEN daf_value ELSE daf_end.v
        inverted == daf_end_value < daf_value
    IN  IF missing \/ bad_daf \/ bad_end \/ inverted
        THEN [err |-> "ValueError", rec |-> NoRecord]
        ELSE [err |-> "none",
              rec |-> [masechet |-> masechet, name |-> name, daf |-> daf_value,
                       daf_end |-> daf_end_value, dedication |-> StrStrip(dedication),
                       learned |-> learned, is_full_masechet |-> is_full]]

----------------------------------------------------------------------------
(* The table *)

Row(id, rec) ==
    [id |-> id, masechet |-> rec.masechet, daf |-> rec.daf, daf_end |-> rec.daf_end,
     name |-> rec.name, dedication |-> rec.dedication, learned |-> rec.learned,
     is_full_masechet |-> rec.is_full_masechet]

RecordOf(r) ==
    [masechet |-> r.masechet, name |-> r.name, daf |-> r.daf, daf_end |-> r.daf_end,
     dedication |-> r.dedication, learned |-> r.learned,
     is_full_masechet |-> r.is_full_masechet]

NoRow == Row(NoId, NoRecord)

(* faulty variant: the WHERE clause reads id >= ? and the first row is taken *)
GetAssignment_FromId(table, id) ==
    LET found == {r \in table : r.id >= id}
    IN  IF found = {} THEN NoRow
        ELSE CHOOSE r \in found : \A x \in found : r.id <= x.id

(* get_assignment: the row with this id, or None (NoRow) *)
GetAssignment(table, id) ==
    IF \E r \in table : r.id = id THEN CHOOSE r \in table : r.id = id ELSE NoRow

(* faulty variant: the comparison takes ranges that share only a boundary unit as disjoint *)
HasOverlap_Touching(table, masechet, start, end, exclude_id) ==
    \E r \in table :
        /\ r.masechet = masechet
        /\ ~(r.daf_end <= start \/ r.daf >= end)
        /\ (exclude_id # NoId => r.id # exclude_id)

(* faulty variant: the query never gets the `AND id != ?` condition *)
HasOverlap_NoExclude(table, masechet, start, end, exclude_id) ==
    \E r \in table :
        /\ r.masechet = masechet
        /\ ~(r.daf_end < start \/ r.daf > end)

(* faulty variant: the query has no `masechet = ?` condition *)
HasOverlap_AnyMasechet(table, masechet, start, end, exclude_id) ==
    \E r \in table :
        /\ ~(r.daf_end < start \/ r.daf > end)
        /\ (exclude_id # NoId => r.id # exclude_id)

(* faulty variant: rows marked learned are left out of the test *)
HasOverlap_SkipsLearned(table, masechet, start, end, exclude_id) ==
    \E r \in table :
        /\ ~r.learned
        /\ r.masechet = masechet
        /\ ~(r.daf_end < start \/ r.daf > end)
        /\ (exclude_id = NoId \/ r.id # exclude_id)

(* _has_overlap: SELECT 1 ... WHERE masechet = ? AND NOT (daf_end < ? OR daf > ?) *)
(* [AND id != ?]                                                                  *)
HasOverlap(table, masechet, start, end, exclude_id) ==
    \E r \in table :
        /\ r.masechet = masechet
        /\ ~(r.daf_end < start \/ r.daf > end)
        /\ (exclude_id # NoId => r.id # exclude_id)

(* UNIQUE (masechet, daf) as seen by an INSERT *)
UniqueViolated(table, masechet, daf) ==
    \E r \in table : r.masechet = masechet /\ r.daf = daf

(* the largest id of a stored row, 0 for the empty table *)
MaxRowid(table) ==
    IF table = {} THEN 0 ELSE CHOOSE n \in {r.id : r \in table} : \A r \in table : r.id <= n

(* faulty variant: the column has no AUTOINCREMENT, the id is the largest *)
(* stored id plus one                                                      *)
Insert_MaxRowid(table, sq, rec) ==
    IF \E r \in table : r.masechet = rec.masechet /\ r.daf = rec.daf
    THEN [err |-> "IntegrityError", rows |-> table, seq |-> sq]
    ELSE [err |-> "none", rows |-> table \cup {Row(MaxRowid(table) + 1, rec)},
          seq |-> MaxRowid(table) + 1]

(* INSERT INTO assignments ...: id INTEGER PRIMARY KEY AUTOINCREMENT takes  *)
(* the next value of the sequence; a UNIQUE violation raises IntegrityError *)
Insert(table, sq, rec) ==
    IF UniqueViolated(table, rec.masechet, rec.daf)
    THEN [err |-> "IntegrityError", rows |-> table, seq |-> sq]
    ELSE [err |-> "none", rows |-> table \cup {Row(sq + 1, rec)}, seq |-> sq + 1]

(* ranges.sort(key=lambda item: item[0]) : stable, by start only *)
RECURSIVE InsertSorted(_, _)
InsertSorted(sorted, x) ==
    IF sorted = <<>> THEN <<x>>
    ELSE IF x[1] < Head(sorted)[1] THEN <<x>> \o sorted
    ELSE <<Head(sorted)>> \o InsertSorted(Tail(sorted), x)

(* faulty variant: the list is scanned in the order given *)
SortByStart_Unsorted(ranges) == ranges

RECURSIVE SortByStart(_)
SortByStart(ranges) ==
    IF ranges = <<>> THEN <<>>
    ELSE InsertSorted(SortByStart(SubSeq(ranges, 1, Len(ranges) - 1)), ranges[Len(ranges)])

(* faulty variant: the scan compares with < and lets a shared boundary unit pass *)
RECURSIVE ScanRanges_Strict(_, _, _)
ScanRanges_Strict(ranges, has_previous, previous_end) ==
    IF ranges = <<>> THEN FALSE
    ELSE IF has_previous /\ Head(ranges)[1] < previous_end THEN TRUE
    ELSE ScanRanges_Strict(Tail(ranges), TRUE, Head(ranges)[2])

(* the scan of one group: previous_end is None (here: no previous) at first *)
RECURSIVE ScanRanges(_, _, _)
ScanRanges(ranges, has_previous, previous_end) ==
    IF ranges = <<>> THEN FALSE
    ELSE IF has_previous /\ Head(ranges)[1] <= previous_end THEN TRUE
    ELSE ScanRanges(Tail(ranges), TRUE, Head(ranges)[2])

(* grouped[masechet]: the (daf, daf_end) of the records of one masechet, in order *)
RECURSIVE GroupOf(_, _)
GroupOf(records, masechet) ==
    IF records = <<>> THEN <<>>
    ELSE (IF Head(records).masechet = masechet
          THEN <<(<<Head(records).daf, Head(records).daf_end>>)>> ELSE <<>>)
         \o GroupOf(Tail(records), masechet)

(* _validate_payload_ranges: TRUE when it raises IntegrityError *)
ValidatePayloadRangesRaises(records) ==
    \E i \in 1..Len(records) :
        ScanRanges(SortByStart(GroupOf(records, records[i].masechet)), FALSE, 0)

(* [self._parse_payload(payload, require_fields=True) for payload in payloads] *)
ParseAll(payloads) == [i \in 1..Len(payloads) |-> ParsePayload(payloads[i], TRUE, NoDefaults)]

----------------------------------------------------------------------------
(* The store operations, each as the outcome of one call on a table:       *)
(* [rows, seq] after the call (the table as it was when the transaction    *)
(* rolled back), err the exception raised ("none" when it returned), kind  *)
(* the path taken, and the returned value.                                 *)

(* the loop of create_assignments inside `with connection`, from record i  *)
(* on; checked says that _has_overlap already ran for record i             *)
RECURSIVE CreateLoop(_, _, _, _, _, _)
CreateLoop(table, sq, records, i, ids, checked) ==
    IF i > Len(records)
    THEN [err |-> "none", kind |-> "created", at |-> 0, rows |-> table, seq |-> sq, ids |-> ids]
    ELSE IF ~checked /\ HasOverlap(table, records[i].masechet, records[i].daf,
                                   records[i].daf_end, NoId)
    THEN [err |-> "IntegrityError", kind |-> "overlap", at |-> i,
          rows |-> table, seq |-> sq, ids |-> ids]
    ELSE LET ins == Insert(table, sq, records[i])
         IN  IF ins.err # "none"
             THEN [err |-> "IntegrityError", kind |-> "unique", at |-> i,
                   rows |-> table, seq |-> sq, ids |-> ids]
             ELSE CreateLoop(ins.rows, ins.seq, records, i + 1, ids \cup {ins.seq}, FALSE)

(* faulty variant: every statement is committed on its own, nothing is rolled back *)
Committed_NoRollback(table, sq, txn) == txn

(* `with connection:` commits when the block returns and rolls back when it raises *)
Committed(table, sq, txn) ==
    IF txn.err = "none" THEN txn ELSE [txn EXCEPT !.rows = table, !.seq = sq]

RecordsOf(parsed) == [i \in 1..Len(parsed) |-> parsed[i].rec]

(* create_assignments *)
CreateAssignments(table, sq, payloads) ==
    LET parsed == ParseAll(payloads)
        failed == [err |-> "ValueError", kind |-> "empty", at |-> 0,
                   rows |-> table, seq |-> sq, ids |-> {}]
    IN  IF payloads = <<>> THEN failed
        ELSE IF \E i \in 1..Len(parsed) : parsed[i].err # "none"
        THEN [failed EXCEPT !.kind = "malformed",
                            !.at = CHOOSE i \in 1..Len(parsed) :
                                      /\ parsed[i].err # "none"
                                      /\ \A j \in 1..(i - 1) : parsed[j].err = "none"]
        ELSE IF ValidatePayloadRangesRaises(RecordsOf(parsed))
        THEN [failed EXCEPT !.err = "IntegrityError", !.kind = "batch_overlap"]
        ELSE Committed(table, sq, CreateLoop(table, sq, RecordsOf(parsed), 1, {}, FALSE))

(* create_assignment *)
CreateAssignment(table, sq, payload) == CreateAssignments(table, sq, <<payload>>)

(* faulty variant: the DELETE removes no row *)
DeleteRow_None(table, id) == table

(* DELETE FROM assignments WHERE id = ? *)
DeleteRow(table, id) == {r \in table : r.id # id}

(* UPDATE assignments SET masechet = ?, ... WHERE id = ? *)
UpdateRow(table, id, rec) ==
    {IF r.id = id THEN Row(id, rec) ELSE r : r \in table}

(* the transaction of update_assignment: the UPDATE, which UNIQUE (masechet, *)
(* daf) can refuse                                                           *)
UpdateAssignmentWrite(table, id, record) ==
    IF /\ \E r \in table : r.id = id
       /\ UniqueViolated({r \in table : r.id # id}, record.masechet, record.daf)
    THEN [err |-> "IntegrityError", rows |-> table]
    ELSE [err |-> "none", rows |-> UpdateRow(table, id, record)]

(* update_assignment; ret is the returned dict, NoRow for None *)
UpdateAssignment(table, sq, id, payload) ==
    LET existing == GetAssignment(table, id)
        parsed == ParsePayload(payload, FALSE, DefaultsOf(existing))
        record == parsed.rec
        write == UpdateAssignmentWrite(table, id, record)
        same == [err |-> "none", kind |-> "notfound", rows |-> table, seq |-> sq,
                 ret |-> NoRow]
    IN  IF existing = NoRow THEN same
        ELSE IF parsed.err # "none"
        THEN [same EXCEPT !.err = "ValueError", !.kind = "malformed"]
        ELSE IF HasOverlap(table, record.masechet, record.daf, record.daf_end, id)
        THEN [same EXCEPT !.err = "IntegrityError", !.kind = "overlap"]
        ELSE IF write.err # "none"
        THEN [same EXCEPT !.err = "IntegrityError", !.kind = "unique"]
        ELSE [same EXCEPT !.kind = "updated", !.rows = write.rows,
                          !.ret = GetAssignment(write.rows, id)]

(* faulty variant: the left segment runs up to the target unit itself *)
MarkSegments_LeftKeepsTarget(record, target_daf, learned) ==
    (IF record.daf < target_daf
     THEN <<(<<record.daf, target_daf, record.learned>>)>> ELSE <<>>)
    \o <<(<<target_daf, target_daf, learned>>)>>
    \o (IF target_daf < record.daf_end
        THEN <<(<<target_daf + 1, record.daf_end, record.learned>>)>> ELSE <<>>)

(* faulty variant: the target segment keeps the record's learned value *)
MarkSegments_TargetKeepsLearned(record, target_daf, learned) ==
    (IF record.daf < target_daf
     THEN <<(<<record.daf, target_daf - 1, record.learned>>)>> ELSE <<>>)
    \o <<(<<target_daf, target_daf, record.learned>>)>>
    \o (IF target_daf < record.daf_end
        THEN <<(<<target_daf + 1, record.daf_end, record.learned>>)>> ELSE <<>>)

(* faulty variant: the whole record is marked, as one segment *)
MarkSegments_Whole(record, target_daf, learned) ==
    <<(<<record.daf, record.daf_end, learned>>)>>

(* the segments update_assignment_daf computes: <<start, end, learned>> *)
MarkSegments(record, target_daf, learned) ==
    (IF record.daf < target_daf
     THEN <<(<<record.daf, target_daf - 1, record.learned>>)>> ELSE <<>>)
    \o <<(<<target_daf, target_daf, learned>>)>>
    \o (IF target_daf < record.daf_end
        THEN <<(<<target_daf + 1, record.daf_end, record.learned>>)>> ELSE <<>>)

(* faulty variant: the left segment runs up to the target unit itself *)
RemoveSegments_LeftKeepsTarget(record, target_daf) ==
    <<(<<record.daf, target_daf, record.learned>>),
      (<<target_daf + 1, record.daf_end, record.learned>>)>>

(* faulty variant: the segments take the column default of learned *)
RemoveSegments_LearnedReset(record, target_daf) ==
    <<(<<record.daf, target_daf - 1, FALSE>>),
      (<<target_daf + 1, record.daf_end, FALSE>>)>>

(* the segments delete_assignment_daf inserts for an interior unit *)
RemoveSegments(record, target_daf) ==
    <<(<<record.daf, target_daf - 1, record.learned>>),
      (<<target_daf + 1, record.daf_end, record.learned>>)>>

(* faulty variant: the dedication of the record is not copied *)
SegmentRecord_NoDedication(record, segment) ==
    [RecordOf(record) EXCEPT !.daf = segment[1], !.daf_end = segment[2],
                             !.learned = segment[3], !.dedication = <<>>]

SegmentRecord(record, segment) ==
    [RecordOf(record) EXCEPT !.daf = segment[1], !.daf_end = segment[2],
                             !.learned = segment[3]]

(* the INSERT loop over the segments, after DELETE ... WHERE id = ? *)
RECURSIVE InsertSegments(_, _, _, _, _)
InsertSegments(table, sq, record, segments, i) ==
    IF i > Len(segments) THEN [err |-> "none", rows |-> table, seq |-> sq]
    ELSE LET ins == Insert(table, sq, SegmentRecord(record, segments[i]))
         IN  IF ins.err # "none" THEN ins
             ELSE InsertSegments(ins.rows, ins.seq, record, segments, i + 1)

(* faulty variant: the unit is not compared with the range of the row *)
GetAssignmentCovering_AnyUnit(table, masechet, daf) ==
    {r \in table : r.masechet = masechet}

(* _get_assignment_covering: SELECT ... LIMIT 1 returns any one of these *)
GetAssignmentCovering(table, masechet, daf) ==
    {r \in table : r.masechet = masechet /\ r.daf <= daf /\ daf <= r.daf_end}

(* faulty variant: the test against the end of the range is missing *)
OutsideRange_StartOnly(record, target_daf) == target_daf < record.daf

(* `if target_daf < start or target_daf > end` *)
OutsideRange(record, target_daf) ==
    target_daf < record.daf \/ target_daf > record.daf_end

(* faulty variant: the test for an unchanged value is missing *)
AlreadyMarked_Never(record, learned) == FALSE

(* `if record["learned"] == learned: return record` *)
AlreadyMarked(record, learned) == record.learned = learned

(* the transaction of update_assignment_daf for the record it read:         *)
(* DELETE ... WHERE id = ?, then the INSERT of every segment                *)
MarkTxn(table, sq, record, id, target_daf, learned) ==
    Committed(table, sq,
              InsertSegments(DeleteRow(table, id), sq, record,
                             MarkSegments(record, target_daf, learned), 1))

(* faulty variant: the payload passed on is empty *)
LearnedPayload_Empty(learned) ==
    [masechet |-> NoneT, name |-> NoneT, daf |-> NoneN, daf_end |-> NoneN,
     dedication |-> AbsentT, learned |-> AbsentF, is_full_masechet |-> AbsentF]

(* {"learned": learned}, the payload update_assignment_daf passes on to     *)
(* update_assignment for a single-unit record                               *)
LearnedPayload(learned) ==
    [masechet |-> NoneT, name |-> NoneT, daf |-> NoneN, daf_end |-> NoneN,
     dedication |-> AbsentT, learned |-> Flag(learned), is_full_masechet |-> AbsentF]

(* update_assignment_daf; rets is the set of values the call may return    *)
(* ({} for None)                                                           *)
UpdateAssignmentDaf(table, sq, id, target_daf, learned) ==
    LET record == GetAssignment(table, id)
        same == [err |-> "none", kind |-> "notfound", rows |-> table, seq |-> sq,
                 rets |-> {}]
        whole == UpdateAssignment(table, sq, id, LearnedPayload(learned))
        txn == MarkTxn(table, sq, record, id, target_daf, learned)
    IN  IF record = NoRow THEN same
        ELSE IF OutsideRange(record, target_daf)
        THEN [same EXCEPT !.kind = "outside"]
        ELSE IF record.daf = record.daf_end
        THEN [err |-> whole.err, kind |-> "single", rows |-> whole.rows,
              seq |-> whole.seq, rets |-> {whole.ret} \ {NoRow}]
        ELSE IF AlreadyMarked(record, learned)
        THEN [same EXCEPT !.kind = "noop", !.rets = {record}]
        ELSE IF txn.err # "none"
        THEN [same EXCEPT !.err = "IntegrityError", !.kind = "unique"]
        ELSE [same EXCEPT !.kind = "split", !.rows = txn.rows, !.seq = txn.seq,
                          !.rets = GetAssignmentCovering(txn.rows, record.masechet,
                                                         target_daf)]

(* delete_assignment; ret is cursor.rowcount > 0 *)
DeleteAssignment(table, sq, id) ==
    [err |-> "none", kind |-> "deleted", rows |-> DeleteRow(table, id),
     seq |-> sq, ret |-> \E r \in table : r.id = id]

(* faulty variant: the two values are bound to the wrong columns *)
SetRange_Swapped(table, id, start, end) ==
    {IF r.id = id THEN [r EXCEPT !.daf = end, !.daf_end = start] ELSE r : r \in table}

(* UPDATE assignments SET daf = ?, daf_end = ? WHERE id = ? *)
SetRange(table, id, start, end) ==
    {IF r.id = id THEN [r EXCEPT !.daf = start, !.daf_end = end] ELSE r : r \in table}

(* faulty variant: the UPDATE has no WHERE clause *)
SetEnd_AllRows(table, id, end) == {[r EXCEPT !.daf_end = end] : r \in table}

(* UPDATE assignments SET daf_end = ? WHERE id = ? *)
SetEnd(table, id, end) ==
    {IF r.id = id THEN [r EXCEPT !.daf_end = end] ELSE r : r \in table}

(* the `with connection:` block of delete_assignment_daf for the record it *)
(* read, whose target is within [start, end]                               *)
RemoveTxn(table, sq, record, id, target_daf) ==
    LET start == record.daf
        end == record.daf_end
        same == [err |-> "none", kind |-> "single", rows |-> table, seq |-> sq,
                 ret |-> TRUE]
        txn == Committed(table, sq,
                         InsertSegments(DeleteRow(table, id), sq, record,
                                        RemoveSegments(record, target_daf), 1))
    IN  IF start = end
        THEN [same EXCEPT !.rows = DeleteRow(table, id),
                          !.ret = \E r \in table : r.id = id]
        ELSE IF target_daf = start
        THEN IF /\ \E r \in table : r.id = id
                /\ UniqueViolated({r \in table : r.id # id}, record.masechet, start + 1)
             THEN [same EXCEPT !.err = "IntegrityError", !.kind = "unique", !.ret = FALSE]
             ELSE [same EXCEPT !.kind = "shrink_start",
                               !.rows = SetRange(table, id, start + 1, end)]
        ELSE IF target_daf = end
        THEN [same EXCEPT !.kind = "shrink_end", !.rows = SetEnd(table, id, end - 1)]
        ELSE IF txn.err # "none"
        THEN [same EXCEPT !.err = "IntegrityError", !.kind = "unique", !.ret = FALSE]
        ELSE [same EXCEPT !.kind = "split", !.rows = txn.rows, !.seq = txn.seq]

(* delete_assignment_daf *)
DeleteAssignmentDaf(table, sq, id, target_daf) ==
    LET record == GetAssignment(table, id)
        same == [err |-> "none", kind |-> "notfound", rows |-> table, seq |-> sq,
                 ret |-> FALSE]
    IN  IF record = NoRow THEN same
        ELSE IF OutsideRange(record, target_daf)
        THEN [same EXCEPT !.kind = "outside"]
        ELSE RemoveTxn(table, sq, record, id, target_daf)

(* faulty variant: the loop body runs for the first record only *)
InsertAll_FirstOnly(table, sq, records, i) ==
    IF i > Len(records) THEN [err |-> "none", rows |-> table, seq |-> sq]
    ELSE Insert(table, sq, records[i])

(* the INSERT loop of replace_assignments, after DELETE FROM assignments *)
RECURSIVE InsertAll(_, _, _, _)
InsertAll(table, sq, records, i) ==
    IF i > Len(records) THEN [err |-> "none", rows |-> table, seq |-> sq]
    ELSE LET ins == Insert(table, sq, records[i])
         IN  IF ins.err # "none" THEN ins
             ELSE InsertAll(ins.rows, ins.seq, records, i + 1)

(* replace_assignments; ret is len(records) *)
ReplaceAssignments(table, sq, payloads) ==
    LET parsed == ParseAll(payloads)
        same == [err |-> "ValueError", kind |-> "malformed", rows |-> table,
                 seq |-> sq, ret |-> 0]
        txn == InsertAll({}, sq, RecordsOf(parsed), 1)
    IN  IF \E i \in 1..Len(parsed) : parsed[i].err # "none" THEN same
        ELSE IF ValidatePayloadRangesRaises(RecordsOf(parsed))
        THEN [same EXCEPT !.err = "IntegrityError", !.kind = "batch_overlap"]
        ELSE IF txn.err # "none"
        THEN [same EXCEPT !.err = "IntegrityError", !.kind = "unique"]
        ELSE [same EXCEPT !.err = "none", !.kind = "replaced", !.rows = txn.rows,
                          !.seq = txn.seq, !.ret = Len(payloads)]

----------------------------------------------------------------------------
(* The HTTP status the request handlers answer with for the outcome of the *)
(* store call they made                                                    *)

(* faulty variant: one except clause answers 400 for both exceptions *)
PostStatus_OneExcept(o) == IF o.err # "none" THEN 400 ELSE 201

(* do_POST /api/assignments, for create_assignment and create_assignments *)
PostStatus(o) ==
    IF o.err = "ValueError" THEN 400
    ELSE IF o.err = "IntegrityError" THEN 409
    ELSE 201

(* do_PUT /api/assignments/<id> without target_daf, for update_assignment *)
PutStatus(o) ==
    IF o.err = "ValueError" THEN 400
    ELSE IF o.err = "IntegrityError" THEN 409
    ELSE IF o.ret = NoRow THEN 404
    ELSE 200

(* _handle_backup_import, for replace_assignments *)
ImportStatus(o) ==
    IF o.err = "ValueError" THEN 400
    ELSE IF o.err = "IntegrityError" THEN 409
    ELSE 200

----------------------------------------------------------------------------
(* The calls the model makes: payloads and arguments drawn from small sets *)

Payload(masechet, name, daf, daf_end, dedication, learned, is_full_masechet) ==
    [masechet |-> masechet, name |-> name, daf |-> daf, daf_end |-> daf_end,
     dedication |-> dedication, learned |-> learned,
     is_full_masechet |-> is_full_masechet]

Masechtot == {TxtA, TxtB}

(* daf_end of a well-formed payload starting at d: absent, or d..MaxDaf *)
EndsFrom(d) == {NoneN} \cup {IntV(e) : e \in d..MaxDaf}

PlainPayload(m, d, e) ==
    Payload(StrV(m), StrV(TxtN1), IntV(d), e, AbsentT, AbsentF, AbsentF)

RichPayload(m, d, e) ==
    Payload(StrV(m), StrV(TxtPadN2), IntV(d), e, StrV(TxtD), Flag(TRUE), Flag(TRUE))

(* a payload that carries an "id" key beside the fields the parser reads *)
IdPayload(masechet, name, daf, id) ==
    [masechet |-> masechet, name |-> name, daf |-> daf, daf_end |-> NoneN,
     dedication |-> AbsentT, learned |-> AbsentF, is_full_masechet |-> AbsentF,
     id |-> IntV(id)]

WellFormedPayloads ==
    UNION {{PlainPayload(TxtA, d, IntV(e)) : e \in d..MaxDaf} : d \in Dafs}
    \cup {RichPayload(TxtB, 1, IntV(e)) : e \in {1, MaxDaf}}
    \cup {PlainPayload(TxtPadA, 1, NoneN), RichPayload(TxtA, MaxDaf, NoneN)}
    \cup {IdPayload(StrV(TxtB), StrV(TxtN1), IntV(2), 1)}

MalformedPayloads ==
    {Payload(NoneT, StrV(TxtN1), IntV(1), NoneN, AbsentT, AbsentF, AbsentF),
     Payload(StrV(TxtBlank), StrV(TxtN1), IntV(1), NoneN, AbsentT, AbsentF, AbsentF),
     Payload(StrV(TxtA), NoneT, IntV(1), NoneN, AbsentT, AbsentF, AbsentF),
     Payload(StrV(TxtA), StrV(TxtN1), NoneN, IntV(2), AbsentT, AbsentF, AbsentF),
     Payload(StrV(TxtA), StrV(TxtN1), BadN, NoneN, AbsentT, AbsentF, AbsentF),
     Payload(StrV(TxtA), StrV(TxtN1), IntV(1), BadN, AbsentT, AbsentF, AbsentF),
     Payload(StrV(TxtA), StrV(TxtN1), IntV(2), IntV(1), AbsentT, AbsentF, AbsentF)}

CreatePayloads == WellFormedPayloads \cup MalformedPayloads

(* the elements of the lists given to create_assignments and replace_assignments *)
BatchPayloads ==
    {PlainPayload(TxtA, 1, IntV(1)), PlainPayload(TxtA, 1, IntV(2)),
     PlainPayload(TxtA, 2, IntV(MaxDaf)), PlainPayload(TxtA, MaxDaf, NoneN),
     RichPayload(TxtB, 1, IntV(MaxDaf)),
     Payload(StrV(TxtA), StrV(TxtN1), IntV(2), IntV(1), AbsentT, AbsentF, AbsentF)}

PayloadLists ==
    {<<>>} \cup {<<p>> : p \in BatchPayloads}
    \cup {<<p, q>> : p \in BatchPayloads, q \in BatchPayloads}

(* the payloads given to update_assignment: any subset of the fields *)
UpdatePayloads ==
    {Payload(NoneT, NoneT, d, e, AbsentT, AbsentF, AbsentF) :
        d \in {NoneN, IntV(1), IntV(2)}, e \in {NoneN, IntV(2), IntV(MaxDaf)}}
    \cup {Payload(StrV(TxtB), NoneT, NoneN, NoneN, AbsentT, AbsentF, AbsentF),
          Payload(NoneT, StrV(TxtN2), NoneN, NoneN, StrV(TxtD), Flag(FALSE), Flag(TRUE)),
          Payload(NoneT, NoneT, BadN, NoneN, AbsentT, AbsentF, AbsentF),
          IdPayload(NoneT, StrV(TxtN2), NoneN, MaxId)}

----------------------------------------------------------------------------
(* One call at a time: every action is one whole call of the store.  `last` *)
(* records which call ran last and how it ended; `steps` counts the calls,  *)
(* and a behaviour makes at most MaxSteps of them.                          *)

Procs == {"caller1", "caller2"}

NoCall == [op |-> "none", records |-> <<>>]

NoHist == [err |-> "none", inflight |-> {}, clean |-> FALSE]

Init ==
    /\ rows = {}
    /\ seq = 0
    /\ last = [op |-> "none", kind |-> "none", err |-> "none", at |-> 0]
    /\ steps = 0
    /\ pc = [p \in Procs |-> "idle"]
    /\ loc = [p \in Procs |-> NoCall]
    /\ hist = [p \in Procs |-> NoHist]
    /\ ever = {}

Apply(op, o, at) ==
    /\ o.seq <= MaxId
    /\ steps' = steps + 1
    /\ rows' = o.rows
    /\ seq' = o.seq
    /\ last' = [op |-> op, kind |-> o.kind, err |-> o.err, at |-> at]
    /\ ever' = ever \cup {r.id : r \in o.rows}
    /\ UNCHANGED <<pc, loc, hist>>

CreateOne ==
    /\ steps < MaxSteps
    /\ \E p \in CreatePayloads :
        LET o == CreateAssignment(rows, seq, p) IN Apply("create_assignment", o, o.at)

CreateMany ==
    /\ steps < MaxSteps
    /\ \E ps \in PayloadLists :
        LET o == CreateAssignments(rows, seq, ps) IN Apply("create_assignments", o, o.at)

UpdateWhole ==
    /\ steps < MaxSteps
    /\ \E id \in Ids, p \in UpdatePayloads :
        Apply("update_assignment", UpdateAssignment(rows, seq, id, p), 0)

UpdateUnit ==
    /\ steps < MaxSteps
    /\ \E id \in Ids, t \in Dafs, learned \in BOOLEAN :
        Apply("update_assignment_daf", UpdateAssignmentDaf(rows, seq, id, t, learned), 0)

DeleteWhole ==
    /\ steps < MaxSteps
    /\ \E id \in Ids : Apply("delete_assignment", DeleteAssignment(rows, seq, id), 0)

DeleteUnit ==
    /\ steps < MaxSteps
    /\ \E id \in Ids, t \in Dafs :
        Apply("delete_assignment_daf", DeleteAssignmentDaf(rows, seq, id, t), 0)

ReplaceAll ==
    /\ steps < MaxSteps
    /\ \E ps \in PayloadLists :
        Apply("replace_assignments", ReplaceAssignments(rows, seq, ps), 0)

Next ==
    \/ CreateOne
    \/ CreateMany
    \/ UpdateWhole
    \/ UpdateUnit
    \/ DeleteWhole
    \/ DeleteUnit
    \/ ReplaceAll

Spec == Init /\ [][Next]_vars

----------------------------------------------------------------------------
(* Callers in parallel.  Every call opens a connection of its own           *)
(* (_get_connection) in the sqlite3 module's default mode: a SELECT outside *)
(* a transaction reads the committed table, the first INSERT opens the      *)
(* transaction, and `with connection:` commits or rolls back at its end.    *)
(* SQLite lets one connection write at a time, so a transaction is one step *)
(* against the committed table; the _has_overlap that precedes the first    *)
(* INSERT of create_assignments is a step of its own.  A writer that finds  *)
(* the database locked waits (the connection's busy timeout) and goes on.   *)
(*                                                                          *)
(* pc[p] is the caller's position in create_assignment, loc[p] its parsed   *)
(* records, hist[p] how the call ended, which calls were in flight when it  *)
(* began and whether its range was free of stored rows then.                *)

RacePayloads ==
    UNION {{PlainPayload(TxtA, d, IntV(e)) : e \in d..MaxDaf} : d \in Dafs}
    \cup {RichPayload(TxtB, 1, NoneN),
          Payload(StrV(TxtA), StrV(TxtN1), IntV(2), IntV(1), AbsentT, AbsentF, AbsentF)}

SetupPayloads ==
    {PlainPayload(TxtA, 1, NoneN), PlainPayload(TxtA, MaxDaf, NoneN),
     RichPayload(TxtB, 1, NoneN)}

InFlight == {p \in Procs : pc[p] \in {"check", "write"}}

(* a whole create_assignment call made before any of the parallel callers begins *)
Setup ==
    /\ \A p \in Procs : pc[p] = "idle"
    /\ rows = {}
    /\ \E payload \in SetupPayloads :
          LET o == CreateAssignment(rows, seq, payload)
          IN  /\ o.seq <= MaxId
              /\ rows' = o.rows
              /\ seq' = o.seq
              /\ ever' = ever \cup {r.id : r \in o.rows}
    /\ UNCHANGED <<last, steps, pc, loc, hist>>

(* create_assignment up to the `with`: parse and validate the payload *)
Begin(p) ==
    /\ pc[p] = "idle"
    /\ \E payload \in RacePayloads :
          LET parsed == ParseAll(<<payload>>)
              bad == parsed[1].err # "none"
              records == RecordsOf(parsed)
          IN  /\ pc' = [pc EXCEPT ![p] = IF bad THEN "done" ELSE "check"]
              /\ loc' = [loc EXCEPT ![p] = [op |-> "create_assignment",
                                           records |-> records]]
              /\ hist' = [hist EXCEPT ![p] =
                            [err |-> IF bad THEN "ValueError" ELSE "none",
                             inflight |-> InFlight,
                             clean |-> ~bad /\ ~HasOverlap(rows, records[1].masechet,
                                                           records[1].daf,
                                                           records[1].daf_end, NoId)]]
    /\ UNCHANGED <<rows, seq, last, steps, ever>>

(* the _has_overlap of the first record, before any transaction is open *)
Check(p) ==
    /\ pc[p] = "check"
    /\ LET record == loc[p].records[1]
       IN  IF HasOverlap(rows, record.masechet, record.daf, record.daf_end, NoId)
           THEN /\ pc' = [pc EXCEPT ![p] = "done"]
                /\ hist' = [hist EXCEPT ![p].err = "IntegrityError"]
           ELSE /\ pc' = [pc EXCEPT ![p] = "write"]
                /\ UNCHANGED hist
    /\ UNCHANGED <<rows, seq, last, steps, loc, ever>>

(* the INSERT of the first record and the rest of the loop, in one transaction *)
Write(p) ==
    /\ pc[p] = "write"
    /\ LET txn == Committed(rows, seq, CreateLoop(rows, seq, loc[p].records, 1, {}, TRUE))
       IN  /\ txn.seq <= MaxId
           /\ rows' = txn.rows
           /\ seq' = txn.seq
           /\ ever' = ever \cup {r.id : r \in txn.rows}
           /\ hist' = [hist EXCEPT ![p].err = txn.err]
    /\ pc' = [pc EXCEPT ![p] = "done"]
    /\ UNCHANGED <<last, steps, loc>>

NextC ==
    \/ Setup
    \/ \E p \in Procs : Begin(p)
    \/ \E p \in Procs : Check(p)
    \/ \E p \in Procs : Write(p)

SpecC == Init /\ [][NextC]_vars

----------------------------------------------------------------------------
(* Parallel callers of every operation that reads before it writes.  A call *)
(* of update_assignment_daf or delete_assignment_daf reads the record with  *)
(* get_assignment on one connection and runs its transaction on another;    *)
(* update_assignment reads, then runs _has_overlap (a SELECT, which opens   *)
(* no transaction) and then its UPDATE; create_assignment runs _has_overlap *)
(* and then its INSERT.  Between two of these steps other callers' steps    *)
(* may come.  Each of the three callers makes one call.  `last` keeps how   *)
(* the call that ended last ended, and                                      *)
(* hist[p] whether one of the caller's create or update calls wrote         *)
(* although its overlap check no longer held when it wrote, and the (id,    *)
(* masechet, unit) for which the caller's delete_assignment_daf returned    *)
(* True.                                                                    *)

Callers == Procs \cup {"caller3"}

NoCallS ==
    [op |-> "none", id |-> NoId, target |-> 0, learned |-> FALSE, record |-> NoRow,
     records |-> <<>>, payload |-> PlainPayload(TxtA, 1, NoneN)]

NoHistS == [raced |-> FALSE, removed |-> {}]

InitS ==
    /\ rows = {}
    /\ seq = 0
    /\ last = [op |-> "none", kind |-> "none", err |-> "none", at |-> 0]
    /\ steps = 0
    /\ pc = [p \in Callers |-> "idle"]
    /\ loc = [p \in Callers |-> NoCallS]
    /\ hist = [p \in Callers |-> NoHistS]
    /\ ever = {}

(* the batches stored before the parallel callers begin *)
SetupLists ==
    {<<PlainPayload(TxtA, 1, IntV(MaxDaf))>>,
     <<PlainPayload(TxtA, 1, IntV(2)), RichPayload(TxtB, 1, IntV(MaxDaf))>>}

(* the payloads of the parallel create_assignment calls *)
CreatePayloadsS ==
    {PlainPayload(TxtA, 1, NoneN), PlainPayload(TxtA, MaxDaf, NoneN),
     PlainPayload(TxtA, 2, IntV(MaxDaf)),
     Payload(StrV(TxtA), StrV(TxtN1), IntV(2), IntV(1), AbsentT, AbsentF, AbsentF)}

(* the payloads of the parallel update_assignment calls *)
UpdatePayloadsS ==
    {Payload(NoneT, NoneT, NoneN, IntV(MaxDaf), AbsentT, AbsentF, AbsentF),
     Payload(StrV(TxtA), NoneT, NoneN, NoneN, AbsentT, AbsentF, AbsentF),
     Payload(NoneT, NoneT, IntV(MaxDaf), IntV(1), AbsentT, AbsentF, AbsentF)}

(* a whole create_assignments call made before any parallel caller begins *)
SetupS ==
    /\ \A p \in Callers : pc[p] = "idle"
    /\ rows = {}
    /\ \E ps \in SetupLists :
          LET o == CreateAssignments(rows, seq, ps)
          IN  /\ o.seq <= MaxId
              /\ rows' = o.rows
              /\ seq' = o.seq
              /\ ever' = ever \cup {r.id : r \in o.rows}
    /\ UNCHANGED <<last, steps, pc, loc, hist>>

(* the call of caller p, as loc[p] holds it, is a delete_assignment_daf     *)
(* that returns True: `return cursor.rowcount > 0` for a single-unit       *)
(* record, `return True` after a shrink or a split                         *)
RemoveReturnsTrue(p, op, err, kind) ==
    /\ op = "delete_assignment_daf"
    /\ err = "none"
    /\ \/ kind \in {"shrink_start", "shrink_end", "split"}
       \/ kind = "single" /\ \E r \in rows : r.id = loc[p].id

(* the call of caller p returns or raises *)
Finish(p, op, err, kind, raced) ==
    /\ pc' = [pc EXCEPT ![p] = "done"]
    /\ loc' = [loc EXCEPT ![p] = NoCallS]
    /\ last' = [op |-> op, kind |-> kind, err |-> err, at |-> 0]
    /\ hist' = [hist EXCEPT ![p] =
                   [raced |-> hist[p].raced \/ raced,
                    removed |-> IF RemoveReturnsTrue(p, op, err, kind)
                                THEN {<<loc[p].id, loc[p].record.masechet,
                                        loc[p].target>>}
                                ELSE {}]]

(* the table after a transaction of caller p *)
CommitS(txn) ==
    /\ txn.seq <= MaxId
    /\ rows' = txn.rows
    /\ seq' = txn.seq
    /\ ever' = ever \cup {r.id : r \in txn.rows}

(* update_assignment_daf and delete_assignment_daf up to the `with`: the    *)
(* get_assignment and the tests on what it returned                         *)
UnitRead(p) ==
    /\ pc[p] = "idle"
    /\ \E op \in {"update_assignment_daf", "delete_assignment_daf"},
          id \in Ids, t \in Dafs, learned \in BOOLEAN :
          LET record == GetAssignment(rows, id)
              call == [NoCallS EXCEPT !.op = op, !.id = id, !.target = t,
                                      !.learned = learned, !.record = record]
          IN  /\ op = "delete_assignment_daf" => learned = FALSE
              /\ IF record = NoRow THEN Finish(p, op, "none", "notfound", FALSE)
                 ELSE IF OutsideRange(record, t) THEN Finish(p, op, "none", "outside", FALSE)
                 ELSE IF op = "update_assignment_daf" /\ record.daf = record.daf_end
                 THEN /\ pc' = [pc EXCEPT ![p] = "upd_read"]
                      /\ loc' = [loc EXCEPT ![p] =
                                    [call EXCEPT !.payload = LearnedPayload(learned)]]
                      /\ UNCHANGED <<hist, last>>
                 ELSE IF op = "update_assignment_daf" /\ AlreadyMarked(record, learned)
                 THEN Finish(p, op, "none", "noop", FALSE)
                 ELSE /\ pc' = [pc EXCEPT ![p] = "txn"]
                      /\ loc' = [loc EXCEPT ![p] = call]
                      /\ UNCHANGED <<hist, last>>
    /\ UNCHANGED <<rows, seq, steps, ever>>

(* the `with connection:` block of update_assignment_daf or                 *)
(* delete_assignment_daf, on the table as it is now, for the record read    *)
(* before                                                                   *)
UnitTxn(p) ==
    /\ pc[p] = "txn"
    /\ LET c == loc[p]
           mark == MarkTxn(rows, seq, c.record, c.id, c.target, c.learned)
           remove == RemoveTxn(rows, seq, c.record, c.id, c.target)
       IN  IF c.op = "update_assignment_daf"
           THEN /\ CommitS(mark)
                /\ Finish(p, c.op, mark.err,
                          IF mark.err = "none" THEN "split" ELSE "unique", FALSE)
           ELSE /\ CommitS(remove)
                /\ Finish(p, c.op, remove.err, remove.kind, FALSE)
    /\ UNCHANGED steps

(* delete_assignment: one DELETE statement *)
DeleteCall(p) ==
    /\ pc[p] = "idle"
    /\ UNCHANGED steps
    /\ \E id \in Ids :
          LET o == DeleteAssignment(rows, seq, id)
          IN  /\ CommitS(o)
              /\ Finish(p, "delete_assignment", o.err,
                        IF o.ret THEN "deleted" ELSE "notfound", FALSE)

(* create_assignment up to the INSERT: parse, validate, and the             *)
(* _has_overlap of the record                                               *)
CreateCheck(p) ==
    /\ pc[p] = "idle"
    /\ \E payload \in CreatePayloadsS :
          LET parsed == ParseAll(<<payload>>)
              record == parsed[1].rec
          IN  IF parsed[1].err # "none"
              THEN Finish(p, "create_assignment", "ValueError", "malformed", FALSE)
              ELSE IF HasOverlap(rows, record.masechet, record.daf, record.daf_end, NoId)
              THEN Finish(p, "create_assignment", "IntegrityError", "overlap", FALSE)
              ELSE /\ pc' = [pc EXCEPT ![p] = "write"]
                   /\ loc' = [loc EXCEPT ![p] =
                                 [NoCallS EXCEPT !.op = "create_assignment",
                                                 !.records = RecordsOf(parsed)]]
                   /\ UNCHANGED <<hist, last>>
    /\ UNCHANGED <<rows, seq, steps, ever>>

(* the INSERT of create_assignment and the commit *)
CreateWrite(p) ==
    /\ pc[p] = "write"
    /\ LET record == loc[p].records[1]
           txn == Committed(rows, seq, CreateLoop(rows, seq, loc[p].records, 1, {}, TRUE))
       IN  /\ CommitS(txn)
           /\ Finish(p, "create_assignment", txn.err, txn.kind,
                     /\ txn.err = "none"
                     /\ HasOverlap(rows, record.masechet, record.daf, record.daf_end, NoId))
    /\ UNCHANGED steps

(* update_assignment up to the `with`: get_assignment and _parse_payload;   *)
(* begun by a caller, or by update_assignment_daf for a single-unit record  *)
UpdRead(p) ==
    /\ \/ /\ pc[p] = "upd_read"
          /\ LET existing == GetAssignment(rows, loc[p].id)
                 parsed == ParsePayload(loc[p].payload, FALSE, DefaultsOf(existing))
             IN  IF existing = NoRow
                 THEN Finish(p, loc[p].op, "none", "notfound", FALSE)
                 ELSE /\ pc' = [pc EXCEPT ![p] = "upd_check"]
                      /\ loc' = [loc EXCEPT ![p].records = <<parsed.rec>>]
                      /\ UNCHANGED <<hist, last>>
       \/ /\ pc[p] = "idle"
          /\ \E id \in Ids, payload \in UpdatePayloadsS :
                LET existing == GetAssignment(rows, id)
                    parsed == ParsePayload(payload, FALSE, DefaultsOf(existing))
                IN  IF existing = NoRow
                    THEN Finish(p, "update_assignment", "none", "notfound", FALSE)
                    ELSE IF parsed.err # "none"
                    THEN Finish(p, "update_assignment", "ValueError", "malformed", FALSE)
                    ELSE /\ pc' = [pc EXCEPT ![p] = "upd_check"]
                         /\ loc' = [loc EXCEPT ![p] =
                                       [NoCallS EXCEPT !.op = "update_assignment",
                                                       !.id = id, !.payload = payload,
                                                       !.records = <<parsed.rec>>]]
                         /\ UNCHANGED <<hist, last>>
    /\ UNCHANGED <<rows, seq, steps, ever>>

(* the _has_overlap of update_assignment, with exclude_id *)
UpdCheck(p) ==
    /\ pc[p] = "upd_check"
    /\ LET record == loc[p].records[1]
       IN  IF HasOverlap(rows, record.masechet, record.daf, record.daf_end, loc[p].id)
           THEN Finish(p, loc[p].op, "IntegrityError", "overlap", FALSE)
           ELSE /\ pc' = [pc EXCEPT ![p] = "upd_write"]
                /\ UNCHANGED <<loc, hist, last>>
    /\ UNCHANGED <<rows, seq, steps, ever>>

(* the UPDATE of update_assignment and the commit *)
UpdWrite(p) ==
    /\ pc[p] = "upd_write"
    /\ LET record == loc[p].records[1]
           write == UpdateAssignmentWrite(rows, loc[p].id, record)
       IN  /\ rows' = write.rows
           /\ Finish(p, loc[p].op, write.err,
                     IF write.err = "none" THEN "updated" ELSE "unique",
                     /\ write.err = "none"
                     /\ \E r \in rows : r.id = loc[p].id
                     /\ HasOverlap(rows, record.masechet, record.daf, record.daf_end,
                                   loc[p].id))
    /\ UNCHANGED <<seq, steps, ever>>

NextS ==
    \/ SetupS
    \/ \E p \in Callers : UnitRead(p)
    \/ \E p \in Callers : UnitTxn(p)
    \/ \E p \in Callers : DeleteCall(p)
    \/ \E p \in Callers : CreateCheck(p)
    \/ \E p \in Callers : CreateWrite(p)
    \/ \E p \in Callers : UpdRead(p)
    \/ \E p \in Callers : UpdCheck(p)
    \/ \E p \in Callers : UpdWrite(p)

SpecS == InitS /\ [][NextS]_vars

----------------------------------------------------------------------------
(* _validate_payload_ranges on its own: the list of parsed records is drawn *)
(* at the start into loc of the first caller, and the one step runs the     *)
(* validator on it; `last` keeps whether it raised.                         *)

MaxLen == 3

(* parsed records, of which the validator reads masechet, daf and daf_end *)
RangeRecords ==
    {[NoRecord EXCEPT !.masechet = m, !.daf = x[1], !.daf_end = x[2]] :
        m \in Masechtot, x \in {y \in Dafs \X Dafs : y[1] <= y[2]}}

RangeLists == UNION {[1..n -> RangeRecords] : n \in 0..MaxLen}

InitV ==
    /\ rows = {}
    /\ seq = 0
    /\ last = [op |-> "none", kind |-> "none", err |-> "none", at |-> 0]
    /\ steps = 0
    /\ pc = [p \in Procs |-> "idle"]
    /\ \E records \in RangeLists :
          loc = [p \in Procs |-> IF p = "caller1"
                                 THEN [op |-> "_validate_payload_ranges",
                                       records |-> records]
                                 ELSE NoCall]
    /\ hist = [p \in Procs |-> NoHist]
    /\ ever = {}

ValidateRanges ==
    /\ pc["caller1"] = "idle"
    /\ pc' = [pc EXCEPT !["caller1"] = "done"]
    /\ LET raises == ValidatePayloadRangesRaises(loc["caller1"].records)
       IN  last' = [op |-> "_validate_payload_ranges",
                    kind |-> IF raises THEN "raised" ELSE "returned",
                    err |-> IF raises THEN "IntegrityError" ELSE "none", at |-> 0]
    /\ UNCHANGED <<rows, seq, steps, loc, hist, ever>>

NextV == ValidateRanges

SpecV == InitV /\ [][NextV]_vars

----------------------------------------------------------------------------
(* Vocabulary of the properties *)

Units(r) == r.daf..r.daf_end

Intersect(r1, r2) == ~(r1.daf_end < r2.daf \/ r1.daf > r2.daf_end)

(* no two rows of one masechet with different ids intersect *)
NoOverlap(table) ==
    \A r1 \in table, r2 \in table :
        (r1.id # r2.id /\ r1.masechet = r2.masechet) => ~Intersect(r1, r2)

(* the (masechet, unit) pairs some row covers *)
Covered(table) == UNION {{<<r.masechet, u>> : u \in Units(r)} : r \in table}

IdsOf(table) == {r.id : r \in table}

(* a payload the parser rejects *)
Malformed(p) == ParsePayload(p, TRUE, NoDefaults).err # "none"

(* the lists with a malformed element *)
MalformedLists == {ps \in PayloadLists : \E i \in 1..Len(ps) : Malformed(ps[i])}

(* the records of every list, as the parser normalises them *)
ListRecords == [ps \in PayloadLists |-> RecordsOf(ParseAll(ps))]

(* the lists of well-formed payloads of which two elements collide *)
CollidingLists ==
    {ps \in PayloadLists \ MalformedLists :
        \E i \in 1..Len(ps), j \in 1..Len(ps) :
            /\ i # j
            /\ ListRecords[ps][i].masechet = ListRecords[ps][j].masechet
            /\ Intersect(ListRecords[ps][i], ListRecords[ps][j])}

(* an element of a list of well-formed payloads collides with a stored row *)
ListHitsTable(ps, table) ==
    /\ ps \notin MalformedLists
    /\ \E i \in 1..Len(ps), r \in table :
          ListRecords[ps][i].masechet = r.masechet /\ Intersect(ListRecords[ps][i], r)

----------------------------------------------------------------------------
(* C1: after any sequence of calls made one at a time from the empty       *)
(* store, no two stored rows of the same masechet with different ids have  *)
(* intersecting closed intervals [daf, daf_end].                           *)
C1_NoOverlap == NoOverlap(rows)

(* a call was refused for a collision while two rows of one masechet touch *)
C1_Witness ==
    /\ last.err = "IntegrityError"
    /\ \E r1 \in rows, r2 \in rows :
          r1.id # r2.id /\ r1.masechet = r2.masechet /\ r1.daf_end + 1 = r2.daf

(* two finished create_assignment calls that ran in parallel, in one       *)
(* masechet, with ranges that intersect each other and no stored row       *)
Raced(p, q) ==
    /\ p # q
    /\ pc[p] = "done" /\ pc[q] = "done"
    /\ p \in hist[q].inflight
    /\ hist[p].clean /\ hist[q].clean
    /\ loc[p].records[1].masechet = loc[q].records[1].masechet
    /\ Intersect(loc[p].records[1], loc[q].records[1])

(* C2: of two create_assignment calls racing with intersecting ranges that *)
(* intersect no stored row, in every interleaving exactly one succeeds,    *)
(* the other gets IntegrityError, and the store ends with exactly one of   *)
(* the two ranges.                                                         *)
C2_ExactlyOneWins ==
    \A p \in Procs, q \in Procs :
        Raced(p, q) =>
            /\ {hist[p].err, hist[q].err} = {"none", "IntegrityError"}
            /\ Cardinality({r \in rows : RecordOf(r) \in {loc[p].records[1],
                                                          loc[q].records[1]}}) = 1

(* C3: create_assignments with a malformed element, or two elements that   *)
(* collide, or an element that collides with a stored row (also the k-th,  *)
(* after elements 1..k-1 were inserted) fails and leaves the stored rows   *)
(* exactly as they were.                                                   *)
C3_BatchAtomic ==
    \A ps \in PayloadLists :
        LET o == CreateAssignments(rows, seq, ps)
        IN  /\ (ps \in MalformedLists \/ ps \in CollidingLists \/ ListHitsTable(ps, rows))
               => o.err # "none"
            /\ o.err # "none" => o.rows = rows

(* the second element of a batch hit a stored row after the first element  *)
(* had been inserted, and the table holds only what it held before         *)
C3_Witness ==
    /\ last.op = "create_assignments"
    /\ last.kind = "overlap"
    /\ last.at = 2
    /\ Cardinality(rows) = 1

(* C4: replace_assignments with a malformed element or two colliding       *)
(* elements fails and leaves the stored rows exactly as they were.         *)
C4_ReplaceAllOrNothing ==
    \A ps \in PayloadLists :
        LET o == ReplaceAssignments(rows, seq, ps)
        IN  (ps \in MalformedLists \/ ps \in CollidingLists)
            => (o.err # "none" /\ o.rows = rows)

(* a replace-all was refused for colliding elements and the rows are kept *)
C4_Witness ==
    /\ last.op = "replace_assignments"
    /\ last.kind = "batch_overlap"
    /\ rows # {}

(* C5: marking any unit t of any stored record [s,e], with any learned     *)
(* value, leaves the set of covered (masechet, unit) pairs as it was, and  *)
(* no unit is covered by two rows.                                         *)
C5_MarkConservesSpan ==
    \A r \in rows :
        \A t \in Units(r), learned \in BOOLEAN :
            LET o == UpdateAssignmentDaf(rows, seq, r.id, t, learned)
            IN  /\ o.err = "none"
                /\ Covered(o.rows) = Covered(rows)
                /\ NoOverlap(o.rows)

(* a mark-unit split has run while an older record is stored *)
C5_Witness ==
    /\ last.op = "update_assignment_daf"
    /\ last.kind = "split"
    /\ Cardinality(rows) >= 3
    /\ \E r \in rows : r.id = 1

(* C6: removing unit t of a stored record [s,e] uncovers exactly           *)
(* (masechet, t): every other unit stays covered exactly once and the rows *)
(* of other records are untouched.                                         *)
C6_RemoveConservesSpan ==
    \A r \in rows :
        \A t \in Units(r) :
            LET o == DeleteAssignmentDaf(rows, seq, r.id, t)
            IN  /\ o.err = "none"
                /\ Covered(o.rows) = Covered(rows) \ {<<r.masechet, t>>}
                /\ NoOverlap(o.rows)
                /\ rows \ {r} \subseteq o.rows

(* a remove-unit has split a record while another record is stored *)
C6_Witness ==
    /\ last.op = "delete_assignment_daf"
    /\ last.kind = "split"
    /\ Cardinality(rows) >= 3

(* C7: marking unit t of a multi-unit record [s,e] with learned L to the   *)
(* other value replaces it by exactly [s,t-1] L (iff t > s), [t,t] with    *)
(* the new value, and [t+1,e] L (iff t < e), every one under a new id; the *)
(* original id is gone.                                                    *)
C7_MarkSplitResult ==
    \A r \in rows :
        \A t \in Units(r) :
            r.daf < r.daf_end =>
                LET o == UpdateAssignmentDaf(rows, seq, r.id, t, ~r.learned)
                    new == o.rows \ rows
                    expected ==
                        (IF t > r.daf THEN {[RecordOf(r) EXCEPT !.daf_end = t - 1]} ELSE {})
                        \cup {[RecordOf(r) EXCEPT !.daf = t, !.daf_end = t,
                                                  !.learned = ~r.learned]}
                        \cup (IF t < r.daf_end THEN {[RecordOf(r) EXCEPT !.daf = t + 1]}
                              ELSE {})
                IN  /\ rows \ o.rows = {r}
                    /\ {RecordOf(x) : x \in new} = expected
                    /\ Cardinality(new) = Cardinality(expected)
                    /\ \A x \in new : x.id > seq /\ x.id \notin IdsOf(rows)
                    /\ r.id \notin IdsOf(o.rows)

(* a mark-unit split has left three adjacent rows, the middle one a single *)
(* unit with the other learned value                                       *)
C7_Witness ==
    /\ last.op = "update_assignment_daf"
    /\ last.kind = "split"
    /\ \E a \in rows, b \in rows, c \in rows :
          /\ a.masechet = b.masechet /\ b.masechet = c.masechet
          /\ a.daf_end + 1 = b.daf /\ b.daf = b.daf_end /\ b.daf_end + 1 = c.daf
          /\ a.learned = c.learned /\ b.learned # a.learned
          /\ a.id + 1 = b.id /\ b.id + 1 = c.id

(* C8: marking an in-range unit of a multi-unit record to the value it     *)
(* already has changes nothing and returns the record as it is; doing it   *)
(* twice in a row leaves the store as it was.                              *)
C8_MarkIdempotent ==
    \A r \in rows :
        \A t \in Units(r) :
            r.daf < r.daf_end =>
                LET o == UpdateAssignmentDaf(rows, seq, r.id, t, r.learned)
                    again == UpdateAssignmentDaf(o.rows, o.seq, r.id, t, r.learned)
                IN  /\ o.err = "none" /\ o.rows = rows /\ o.seq = seq /\ o.rets = {r}
                    /\ again.err = "none" /\ again.rows = rows /\ again.rets = {r}

(* a mark-unit has returned without splitting a multi-unit record *)
C8_Witness ==
    /\ last.op = "update_assignment_daf"
    /\ last.kind = "noop"
    /\ \E r \in rows : r.daf < r.daf_end

(* C9: removing the first or the last unit of a multi-unit record [s,e]    *)
(* keeps the row under its id with range [s+1,e] or [s,e-1], every other   *)
(* field and every other row as they were, and returns true.               *)
C9_BoundaryShrinksInPlace ==
    \A r \in rows :
        r.daf < r.daf_end =>
            LET first == DeleteAssignmentDaf(rows, seq, r.id, r.daf)
                final == DeleteAssignmentDaf(rows, seq, r.id, r.daf_end)
            IN  /\ first.err = "none" /\ first.ret = TRUE
                /\ first.rows = (rows \ {r}) \cup {[r EXCEPT !.daf = r.daf + 1]}
                /\ final.err = "none" /\ final.ret = TRUE
                /\ final.rows = (rows \ {r}) \cup {[r EXCEPT !.daf_end = r.daf_end - 1]}

(* a remove-unit has shrunk a record at its end while another record is stored *)
C9_Witness ==
    /\ last.op = "delete_assignment_daf"
    /\ last.kind = "shrink_end"
    /\ Cardinality(rows) >= 2

(* C10: removing an interior unit t of a stored record [s,e] removes the   *)
(* row and inserts exactly [s,t-1] and [t+1,e], both under new ids and     *)
(* with the original learned value; no row keeps the original id.          *)
C10_InteriorRemoveSplits ==
    \A r \in rows :
        \A t \in Units(r) :
            (r.daf < t /\ t < r.daf_end) =>
                LET o == DeleteAssignmentDaf(rows, seq, r.id, t)
                    new == o.rows \ rows
                IN  /\ o.err = "none"
                    /\ rows \ o.rows = {r}
                    /\ Cardinality(new) = 2
                    /\ {RecordOf(x) : x \in new}
                         = {[RecordOf(r) EXCEPT !.daf_end = t - 1],
                            [RecordOf(r) EXCEPT !.daf = t + 1]}
                    /\ \A x \in new : x.id > seq /\ x.id \notin IdsOf(rows)
                    /\ r.id \notin IdsOf(o.rows)

(* a remove-unit has split a learned record in two *)
C10_Witness ==
    /\ last.op = "delete_assignment_daf"
    /\ last.kind = "split"
    /\ \E a \in rows, b \in rows :
          /\ a.masechet = b.masechet /\ a.daf_end + 2 = b.daf
          /\ a.learned /\ b.learned /\ a.id + 1 = b.id

(* C11: removing the only unit t of a stored single-unit record [t,t]      *)
(* deletes that row, inserts nothing (the id counter stays), leaves every  *)
(* other row as it was and returns true.                                   *)
C11_SingleUnitRemoveDeletes ==
    \A r \in rows :
        r.daf = r.daf_end =>
            LET o == DeleteAssignmentDaf(rows, seq, r.id, r.daf)
            IN  /\ o.err = "none"
                /\ o.ret = TRUE
                /\ o.rows = rows \ {r}
                /\ o.seq = seq

(* a remove-unit has deleted a single-unit record and another record stays *)
C11_Witness ==
    /\ last.op = "delete_assignment_daf"
    /\ last.kind = "single"
    /\ rows # {}

(* C12: create_assignment of a well-formed [a,b] in masechet M raises      *)
(* IntegrityError iff some stored row of M has daf <= b and daf_end >= a,  *)
(* and otherwise inserts the row: a range that only touches a stored one   *)
(* is accepted, one that shares a single unit is refused, and rows of      *)
(* another masechet never cause a refusal.                                 *)
C12_OverlapIsClosedIntersection ==
    \A p \in WellFormedPayloads :
        LET rec == ParsePayload(p, TRUE, NoDefaults).rec
            o == CreateAssignment(rows, seq, p)
            hit == \E r \in rows :
                       r.masechet = rec.masechet /\ r.daf <= rec.daf_end
                                                 /\ r.daf_end >= rec.daf
        IN  /\ hit => (o.err = "IntegrityError" /\ o.rows = rows)
            /\ ~hit => (o.err = "none" /\ o.rows = rows \cup {Row(seq + 1, rec)})

(* a create has been accepted for a range that touches a stored range of   *)
(* its masechet                                                            *)
C12_Witness ==
    /\ last.op = "create_assignment"
    /\ last.kind = "created"
    /\ \E r1 \in rows, r2 \in rows :
          /\ r1.masechet = r2.masechet
          /\ r1.daf_end + 1 = r2.daf
          /\ seq \in {r1.id, r2.id}

(* the units a caller may name: those of the model and one beyond each end *)
TargetUnits == 0..(MaxDaf + 1)

(* C13: when the id is not stored, or the target unit is outside the       *)
(* record's [daf, daf_end], update_assignment_daf returns None and         *)
(* delete_assignment_daf returns false, and the stored rows are exactly    *)
(* what they were before the call.                                         *)
C13_UnresolvedTargetChangesNothing ==
    \A id \in Ids, t \in TargetUnits, learned \in BOOLEAN :
        LET unresolved ==
                \/ id \notin IdsOf(rows)
                \/ \E r \in rows : r.id = id /\ t \notin Units(r)
            mark == UpdateAssignmentDaf(rows, seq, id, t, learned)
            remove == DeleteAssignmentDaf(rows, seq, id, t)
        IN  unresolved =>
                /\ mark.err = "none" /\ mark.rets = {} /\ mark.rows = rows
                /\ mark.seq = seq
                /\ remove.err = "none" /\ remove.ret = FALSE /\ remove.rows = rows
                /\ remove.seq = seq

(* a mark-unit has named a unit outside the range of a stored multi-unit   *)
(* record                                                                  *)
C13_Witness ==
    /\ last.op = "update_assignment_daf"
    /\ last.kind = "outside"
    /\ \E r \in rows : r.daf < r.daf_end

(* the payloads of update_assignment whose bounds, where given, are numbers *)
NumericUpdatePayloads == {p \in UpdatePayloads : p.daf.k # "str" /\ p.daf_end.k # "str"}

(* the record an update asks for: the payload's fields over the stored row's *)
Merged(r, p) ==
    [masechet |-> IF Truthy(p.masechet) THEN Strip(p.masechet.v) ELSE r.masechet,
     name |-> IF Truthy(p.name) THEN Strip(p.name.v) ELSE r.name,
     daf |-> IF p.daf.k = "int" THEN p.daf.v ELSE r.daf,
     daf_end |-> IF p.daf_end.k = "int" THEN p.daf_end.v ELSE r.daf_end,
     dedication |-> IF p.dedication.k = "str" THEN Strip(p.dedication.v)
                    ELSE IF p.dedication.k = "none" THEN <<>> ELSE r.dedication,
     learned |-> IF p.learned.k = "val" THEN p.learned.v ELSE r.learned,
     is_full_masechet |-> IF p.is_full_masechet.k = "val" THEN p.is_full_masechet.v
                          ELSE r.is_full_masechet]

(* C14: update_assignment(id, payload) with numeric bounds succeeds iff    *)
(* the id is stored, the merged range has end >= start and it intersects   *)
(* no stored row of the merged masechet other than the row itself (so an   *)
(* update over the row's own units succeeds); a missing id gives None, an  *)
(* inverted range ValueError, a collision IntegrityError, and in these     *)
(* three cases the stored rows are unchanged.                              *)
C14_UpdateChecksOtherRowsOnly ==
    \A id \in Ids, p \in NumericUpdatePayloads :
        LET o == UpdateAssignment(rows, seq, id, p)
        IN  IF id \notin IdsOf(rows)
            THEN o.err = "none" /\ o.ret = NoRow /\ o.rows = rows
            ELSE \A r \in rows :
                    r.id = id =>
                        LET m == Merged(r, p)
                            collides == \E x \in rows \ {r} :
                                            x.masechet = m.masechet /\ Intersect(x, m)
                        IN  IF m.daf_end < m.daf
                            THEN o.err = "ValueError" /\ o.rows = rows
                            ELSE IF collides
                            THEN o.err = "IntegrityError" /\ o.rows = rows
                            ELSE /\ o.err = "none"
                                 /\ o.rows = (rows \ {r}) \cup {Row(id, m)}
                                 /\ o.ret = Row(id, m)

(* an update has widened the first record of a batch over the units it had *)
(* before, while the other record of the batch is stored                   *)
C14_Witness ==
    /\ last.op = "update_assignment"
    /\ last.kind = "updated"
    /\ Cardinality(rows) = 2
    /\ \E r \in rows :
          r.id = 1 /\ r.masechet = TxtA /\ r.daf = 1 /\ r.daf_end = MaxDaf

(* the ids a call would bring into the table as it stands are ids no row   *)
(* has held, for every create, replace-all, mark-unit and remove-unit      *)
FreshIdsFromHere ==
    /\ \A p \in CreatePayloads :
          \A r \in CreateAssignment(rows, seq, p).rows \ rows : r.id \notin ever
    /\ \A ps \in PayloadLists :
          LET o == ReplaceAssignments(rows, seq, ps)
          IN  o.kind = "replaced" => \A r \in o.rows : r.id \notin ever
    /\ \A id \in Ids, t \in Dafs :
          LET mark == UpdateAssignmentDaf(rows, seq, id, t, TRUE)
              remove == DeleteAssignmentDaf(rows, seq, id, t)
          IN  /\ mark.kind = "split" => \A r \in mark.rows \ rows : r.id \notin ever
              /\ remove.kind = "split" => \A r \in remove.rows \ rows : r.id \notin ever

(* C15: every row inserted by a create, by a mark-unit or remove-unit      *)
(* split or by replace_assignments gets an id that no row has held before, *)
(* rows since deleted or wiped included; every other call brings no new id *)
(* into the table, whatever "id" a payload carries.                        *)
C15_IdsNeverReused ==
    /\ []FreshIdsFromHere
    /\ [][/\ (last'.op = "replace_assignments" /\ last'.kind = "replaced")
              => \A r \in rows' : r.id \notin ever
         /\ last'.kind \in {"created", "split"}
              => \A r \in rows' \ rows : r.id \notin ever
         /\ last'.kind \notin {"replaced", "created", "split"}
              => IdsOf(rows') \subseteq IdsOf(rows)]_vars

(* a replace-all has wiped rows and stored new ones *)
C15_Witness ==
    /\ last.op = "replace_assignments"
    /\ last.kind = "replaced"
    /\ rows # {}
    /\ ever \ IdsOf(rows) # {}

(* the call of a caller that is about to run a split: a mark-unit of a     *)
(* multi-unit record, or a remove-unit of an interior unit                 *)
IsSplit(c) ==
    \/ c.op = "update_assignment_daf"
    \/ c.op = "delete_assignment_daf" /\ c.record.daf < c.target
                                      /\ c.target < c.record.daf_end

(* the records that replace the record of a split *)
SplitParts(c) ==
    (IF c.target > c.record.daf
     THEN {[RecordOf(c.record) EXCEPT !.daf_end = c.target - 1]} ELSE {})
    \cup (IF c.op = "update_assignment_daf"
          THEN {[RecordOf(c.record) EXCEPT !.daf = c.target, !.daf_end = c.target,
                                           !.learned = c.learned]}
          ELSE {})
    \cup (IF c.target < c.record.daf_end
          THEN {[RecordOf(c.record) EXCEPT !.daf = c.target + 1]} ELSE {})

(* C16: a split is applied whole or not at all.  Whatever other calls came *)
(* between its read and its transaction, the transaction of a mark-unit or *)
(* interior remove-unit either leaves the table and the id counter exactly *)
(* as they were (so the original row, if it was there, still is), or       *)
(* leaves no row under the original id and one new row for every one of    *)
(* its segments, every other row untouched; it never leaves the original   *)
(* deleted with only some of the segments stored.                          *)
C16_SplitAllOrNothing ==
    [][\A p \in Callers :
          (pc[p] = "txn" /\ pc'[p] = "done" /\ IsSplit(loc[p])) =>
              \/ rows' = rows /\ seq' = seq
              \/ /\ loc[p].id \notin IdsOf(rows')
                 /\ \A part \in SplitParts(loc[p]) :
                       \E r \in rows' \ rows : RecordOf(r) = part
                 /\ Cardinality(rows' \ rows) = Cardinality(SplitParts(loc[p]))
                 /\ {r \in rows : r.id # loc[p].id} \subseteq rows']_vars

(* a mark-unit split was refused by UNIQUE (masechet, daf) after another   *)
(* caller had changed the table, and rows are stored                       *)
C16_Witness ==
    /\ last.op = "update_assignment_daf"
    /\ last.kind = "unique"
    /\ last.err = "IntegrityError"
    /\ rows # {}

(* C17: with mark-unit and remove-unit calls running in parallel with      *)
(* delete_assignment, delete_assignment_daf, create_assignment and         *)
(* update_assignment calls, no two stored rows of one masechet intersect   *)
(* (states in which a create or update wrote on an overlap check that had  *)
(* gone stale are left to C2 and not counted here).                        *)
C17_NoOverlapWithSplits ==
    (\A p \in Callers : ~hist[p].raced) => NoOverlap(rows)

(* a stored row of the record's masechet, other than the row `id`, meets   *)
(* the record's range                                                      *)
Collides(table, rec, id) ==
    \E r \in table : r.id # id /\ r.masechet = rec.masechet /\ Intersect(r, rec)

(* the payload of an update is malformed for the stored row r: a bound     *)
(* that is no number, or a merged range with end < start                   *)
UpdateMalformed(r, p) ==
    \/ p.daf.k = "str"
    \/ p.daf_end.k = "str"
    \/ Merged(r, p).daf_end < Merged(r, p).daf

(* C18: create, whole update and replace-all report a range collision of   *)
(* well-formed input as IntegrityError (409), malformed input (a missing   *)
(* masechet, name or daf, a non-numeric bound, end < start) as ValueError  *)
(* (400) and an id that is not stored as None (404); ValueError and None   *)
(* are given for nothing else, so a collision is never reported as one of  *)
(* them.                                                                   *)
C18_ErrorsAreTyped ==
    /\ \A p \in CreatePayloads :
          LET o == CreateAssignment(rows, seq, p)
              rec == ParsePayload(p, TRUE, NoDefaults).rec
          IN  /\ Malformed(p) <=> o.err = "ValueError"
              /\ Malformed(p) <=> PostStatus(o) = 400
              /\ (~Malformed(p) /\ Collides(rows, rec, NoId))
                    <=> (o.err = "IntegrityError" /\ PostStatus(o) = 409)
    /\ \A ps \in PayloadLists :
          LET c == CreateAssignments(rows, seq, ps)
              r == ReplaceAssignments(rows, seq, ps)
          IN  /\ (ps \in MalformedLists \/ ps = <<>>) <=> c.err = "ValueError"
              /\ c.err = "ValueError" <=> PostStatus(c) = 400
              /\ (ps \in CollidingLists \/ ListHitsTable(ps, rows))
                    <=> (c.err = "IntegrityError" /\ PostStatus(c) = 409)
              /\ ps \in MalformedLists <=> (r.err = "ValueError" /\ ImportStatus(r) = 400)
              /\ ps \in CollidingLists
                    <=> (r.err = "IntegrityError" /\ ImportStatus(r) = 409)
    /\ \A id \in Ids, p \in UpdatePayloads :
          LET o == UpdateAssignment(rows, seq, id, p)
          IN  IF id \notin IdsOf(rows)
              THEN o.err = "none" /\ o.ret = NoRow /\ PutStatus(o) = 404
              ELSE \A r \in rows :
                      r.id = id =>
                          /\ PutStatus(o) # 404
                          /\ UpdateMalformed(r, p)
                                <=> (o.err = "ValueError" /\ PutStatus(o) = 400)
                          /\ (~UpdateMalformed(r, p) /\ Collides(rows, Merged(r, p), id))
                                <=> (o.err = "IntegrityError" /\ PutStatus(o) = 409)

(* a whole update has been refused for a collision with another row *)
C18_Witness ==
    /\ last.op = "update_assignment"
    /\ last.kind = "overlap"
    /\ last.err = "IntegrityError"
    /\ Cardinality(rows) >= 2

(* C20: marking the unit t of a stored single-unit record [t,t] keeps the  *)
(* row under its id with its range, sets learned to the value asked for,   *)
(* leaves every other row and the number of rows as they were, inserts     *)
(* nothing, and returns that record.                                       *)
C20_SingleUnitMarkInPlace ==
    \A r \in rows :
        r.daf = r.daf_end =>
            \A learned \in BOOLEAN :
                LET o == UpdateAssignmentDaf(rows, seq, r.id, r.daf, learned)
                    marked == [r EXCEPT !.learned = learned]
                IN  /\ o.err = "none"
                    /\ o.rows = (rows \ {r}) \cup {marked}
                    /\ Cardinality(o.rows) = Cardinality(rows)
                    /\ o.seq = seq
                    /\ o.rets = {marked}

(* a mark-unit has set learned on a single-unit record that was created    *)
(* without it, while another record is stored                              *)
C20_Witness ==
    /\ last.op = "update_assignment_daf"
    /\ last.kind = "single"
    /\ Cardinality(rows) >= 2
    /\ \E r \in rows : r.daf = r.daf_end /\ r.name = TxtN1 /\ r.learned

(* C19: for every list of ranges with start <= end,                        *)
(* _validate_payload_ranges raises IntegrityError iff two distinct         *)
(* elements of the list have the same masechet and intersecting closed     *)
(* intervals (exact duplicates and a long range containing a later short   *)
(* one included); elements of different masechet never conflict.           *)
C19_ValidatorIsPairwise ==
    pc["caller1"] = "done" =>
        LET records == loc["caller1"].records
        IN  last.err = "IntegrityError"
            <=> \E i \in 1..Len(records), j \in 1..Len(records) :
                    /\ i # j
                    /\ records[i].masechet = records[j].masechet
                    /\ records[i].daf <= records[j].daf_end
                    /\ records[j].daf <= records[i].daf_end

(* the validator has raised for a list of three whose first element is a   *)
(* long range, whose second is of another masechet and whose third starts  *)
(* later inside the first                                                  *)
C19_Witness ==
    /\ pc["caller1"] = "done"
    /\ last.kind = "raised"
    /\ LET records == loc["caller1"].records
       IN  /\ Len(records) = 3
           /\ records[1].masechet = records[3].masechet
           /\ records[2].masechet # records[1].masechet
           /\ records[1].daf < records[3].daf
           /\ records[3].daf_end < records[1].daf_end

----------------------------------------------------------------------------
(* C21: whenever update_assignment_daf splits (a multi-unit record, t in   *)
(* its range, the requested learned value differs from the stored one),    *)
(* it returns a record, and every record it may return has                 *)
(* daf = daf_end = t, the requested learned value, the masechet of the     *)
(* original and an id other than the original's.                           *)
C21_SplitReturnsTargetUnit ==
    \A r \in rows :
        \A t \in Units(r) :
            r.daf < r.daf_end =>
                LET o == UpdateAssignmentDaf(rows, seq, r.id, t, ~r.learned)
                IN  /\ o.kind = "split"
                    /\ o.rets # {}
                    /\ \A x \in o.rets :
                          /\ x.daf = t /\ x.daf_end = t
                          /\ x.learned = ~r.learned
                          /\ x.masechet = r.masechet
                          /\ x.id # r.id
                          /\ x \in o.rows

(* a mark-unit split at the start of a record has run: two rows of one     *)
(* masechet, the first a learned single unit under a newer id than 1       *)
C21_Witness ==
    /\ last.op = "update_assignment_daf"
    /\ last.kind = "split"
    /\ Cardinality(rows) = 2
    /\ \E a \in rows, b \in rows :
          /\ a.masechet = b.masechet
          /\ a.daf = a.daf_end /\ a.daf_end + 1 = b.daf /\ b.daf < b.daf_end
          /\ a.learned /\ ~b.learned
          /\ a.id > 1 /\ b.id = a.id + 1

----------------------------------------------------------------------------
(* the fields of a row that describe no interval *)
Carried(r) ==
    [masechet |-> r.masechet, name |-> r.name, dedication |-> r.dedication,
     is_full_masechet |-> r.is_full_masechet]

(* C22: every row a mark-unit split or an interior remove-unit split       *)
(* inserts has the masechet, name, dedication and is_full_masechet of the  *)
(* record it replaces, and the rows of the other records are in the table  *)
(* afterwards exactly as they were.                                        *)
C22_SplitCarriesFields ==
    \A r \in rows :
        \A t \in Units(r) :
            LET m == UpdateAssignmentDaf(rows, seq, r.id, t, ~r.learned)
                d == DeleteAssignmentDaf(rows, seq, r.id, t)
            IN  /\ r.daf < r.daf_end =>
                      /\ m.kind = "split"
                      /\ m.rows \ rows # {}
                      /\ \A x \in m.rows \ rows : Carried(x) = Carried(r)
                      /\ rows \ {r} \subseteq m.rows
                /\ (r.daf < t /\ t < r.daf_end) =>
                      /\ d.kind = "split"
                      /\ d.rows \ rows # {}
                      /\ \A x \in d.rows \ rows : Carried(x) = Carried(r)
                      /\ rows \ {r} \subseteq d.rows

(* a split has run on a record with a dedication, the full-masechet flag   *)
(* and a name of its own, and its parts are stored with these values       *)
C22_Witness ==
    /\ last.op \in {"update_assignment_daf", "delete_assignment_daf"}
    /\ last.kind = "split"
    /\ \E a \in rows, b \in rows :
          /\ a.id # b.id
          /\ a.masechet = TxtB /\ Carried(a) = Carried(b)
          /\ a.dedication = TxtD /\ a.is_full_masechet /\ a.name = TxtN2

----------------------------------------------------------------------------
(* C23: a successful update_assignment(id, payload) leaves the id and      *)
(* every field the payload does not give (masechet, name, daf, daf_end,    *)
(* dedication, learned, is_full_masechet) as they were, in the stored row  *)
(* and in the returned record; a payload that gives only a daf beyond the  *)
(* stored daf_end is refused with ValueError and the table is unchanged.   *)
C23_UpdateKeepsAbsentFields ==
    \A r \in rows, p \in UpdatePayloads :
        LET o == UpdateAssignment(rows, seq, r.id, p)
            x == o.ret
        IN  /\ o.kind = "updated" =>
                  /\ o.err = "none"
                  /\ x.id = r.id
                  /\ o.rows = (rows \ {r}) \cup {x}
                  /\ p.masechet.k = "none" => x.masechet = r.masechet
                  /\ p.name.k = "none" => x.name = r.name
                  /\ p.daf.k = "none" => x.daf = r.daf
                  /\ p.daf_end.k = "none" => x.daf_end = r.daf_end
                  /\ p.dedication.k = "absent" => x.dedication = r.dedication
                  /\ p.learned.k = "absent" => x.learned = r.learned
                  /\ p.is_full_masechet.k = "absent" =>
                        x.is_full_masechet = r.is_full_masechet
            /\ (p.daf.k = "int" /\ p.daf_end.k = "none" /\ p.daf.v > r.daf_end) =>
                  /\ o.err = "ValueError"
                  /\ o.rows = rows /\ o.seq = seq

(* an update that gave a name, a dedication and the flags, and no          *)
(* masechet, daf or daf_end, has run on a multi-unit record of masechet A  *)
C23_Witness ==
    /\ last.op = "update_assignment"
    /\ last.kind = "updated"
    /\ \E r \in rows :
          /\ r.masechet = TxtA /\ r.daf < r.daf_end
          /\ r.name = TxtN2 /\ r.dedication = TxtD
          /\ r.is_full_masechet /\ ~r.learned

----------------------------------------------------------------------------
WellFormed(table) == \A r \in table : r.daf <= r.daf_end

(* the create payloads with numeric bounds whose daf_end is before the daf *)
InvertedPayloads ==
    {p \in CreatePayloads :
        p.daf.k = "int" /\ p.daf_end.k = "int" /\ p.daf_end.v < p.daf.v}

(* the well-formed create payloads that give no daf_end *)
EndlessPayloads == {p \in WellFormedPayloads : p.daf_end.k = "none"}

(* C24: every stored row has daf <= daf_end, and so has every row after    *)
(* one more remove-unit (boundary shrink or split) or mark-unit; a create  *)
(* whose payload gives no daf_end stores the single unit [daf, daf]; a     *)
(* create or an update whose resulting daf_end is before its daf raises    *)
(* ValueError and changes nothing.                                         *)
C24_RangesWellFormed ==
    /\ WellFormed(rows)
    /\ \A r \in rows :
          \A t \in Units(r) :
              /\ WellFormed(DeleteAssignmentDaf(rows, seq, r.id, t).rows)
              /\ \A learned \in BOOLEAN :
                    WellFormed(UpdateAssignmentDaf(rows, seq, r.id, t, learned).rows)
    /\ \A p \in EndlessPayloads :
          LET o == CreateAssignment(rows, seq, p)
          IN  o.err = "none" =>
                  \E x \in o.rows \ rows :
                      /\ o.rows = rows \cup {x}
                      /\ x.daf = p.daf.v /\ x.daf_end = p.daf.v
    /\ \A p \in InvertedPayloads :
          LET o == CreateAssignment(rows, seq, p)
          IN  o.err = "ValueError" /\ o.rows = rows /\ o.seq = seq
    /\ \A r \in rows, p \in NumericUpdatePayloads :
          LET o == UpdateAssignment(rows, seq, r.id, p)
          IN  Merged(r, p).daf_end < Merged(r, p).daf =>
                  o.err = "ValueError" /\ o.rows = rows /\ o.seq = seq

(* a remove-unit has shrunk a two-unit record from its start: the row now  *)
(* holds the single unit it ended with                                     *)
C24_Witness ==
    /\ last.op = "delete_assignment_daf"
    /\ last.kind = "shrink_start"
    /\ \E r \in rows : r.daf = r.daf_end /\ r.daf = MaxDaf /\ r.id = 1

----------------------------------------------------------------------------
(* the same rows with another name, dedication and is_full_masechet each *)
Relabel(table) ==
    {[r EXCEPT !.name = IF r.name = TxtN1 THEN TxtN2 ELSE TxtN1,
               !.dedication = IF r.dedication = TxtD THEN <<>> ELSE TxtD,
               !.is_full_masechet = ~r.is_full_masechet] : r \in table}

(* the same rows with the other learned value each *)
Relearn(table) == {[r EXCEPT !.learned = ~r.learned] : r \in table}

Ranges(table) == {<<r.masechet, r.daf, r.daf_end>> : r \in table}

(* two outcomes end alike and leave the same ranges *)
SameOutcome(a, b) ==
    /\ a.err = b.err
    /\ a.kind = b.kind
    /\ Ranges(a.rows) = Ranges(b.rows)

(* create, whole update, remove-unit and replace-all end alike in two stores *)
SameButMark(t1, t2) ==
    /\ \A p \in CreatePayloads :
          SameOutcome(CreateAssignment(t1, seq, p), CreateAssignment(t2, seq, p))
    /\ \A id \in Ids, p \in UpdatePayloads :
          SameOutcome(UpdateAssignment(t1, seq, id, p), UpdateAssignment(t2, seq, id, p))
    /\ \A id \in Ids, t \in Dafs :
          SameOutcome(DeleteAssignmentDaf(t1, seq, id, t),
                      DeleteAssignmentDaf(t2, seq, id, t))
    /\ \A ps \in PayloadLists :
          SameOutcome(ReplaceAssignments(t1, seq, ps), ReplaceAssignments(t2, seq, ps))

(* mark-unit ends alike in two stores *)
SameMark(t1, t2) ==
    \A id \in Ids, t \in Dafs, learned \in BOOLEAN :
        SameOutcome(UpdateAssignmentDaf(t1, seq, id, t, learned),
                    UpdateAssignmentDaf(t2, seq, id, t, learned))

(* C25 as stated: two stores with the same (masechet, daf, daf_end) rows   *)
(* that differ in is_full_masechet, learned, name and dedication give      *)
(* every create, whole update, mark-unit, remove-unit and replace-all call *)
(* the same outcome and the same resulting ranges.                         *)
C25_NoFieldAffectsRanges ==
    /\ SameButMark(rows, Relearn(Relabel(rows)))
    /\ SameMark(rows, Relearn(Relabel(rows)))

(* what the fields of a row other than its range decide, in the state at   *)
(* hand: learned decides mark-unit on a multi-unit record, and nothing else *)
LearnedOnlyDecidesMark ==
    /\ SameButMark(rows, Relearn(Relabel(rows)))
    /\ SameMark(rows, Relabel(rows))
    /\ \A id \in Ids, t \in Dafs, learned \in BOOLEAN :
          LET r == GetAssignment(rows, id)
              a == UpdateAssignmentDaf(rows, seq, id, t, learned)
              b == UpdateAssignmentDaf(Relearn(rows), seq, id, t, learned)
          IN  IF r # NoRow /\ r.daf < r.daf_end /\ t \in Units(r)
              THEN /\ {a.kind, b.kind} = {"noop", "split"}
                   /\ Ranges(a.rows) # Ranges(b.rows)
              ELSE SameOutcome(a, b)

(* C25, amended: is_full_masechet, name and dedication affect no outcome   *)
(* and no resulting range of create, whole update, mark-unit, remove-unit  *)
(* and replace-all; learned affects none of create, whole update,          *)
(* remove-unit and replace-all, and none of mark-unit on a single-unit     *)
(* record, a unit out of range or an unknown id; on a unit of a multi-unit *)
(* record mark-unit splits in the store where the stored value differs     *)
(* from the requested one and changes nothing in the other.                *)
C25_OnlyLearnedAffectsMark == []LearnedOnlyDecidesMark

(* a create was refused for Overlap in a store that holds a multi-unit row *)
(* with is_full_masechet, learned and a dedication set                     *)
C25_Witness ==
    /\ last.op = "create_assignment"
    /\ last.kind = "overlap"
    /\ \E r \in rows :
          /\ r.is_full_masechet /\ r.learned /\ r.dedication = TxtD
          /\ r.daf < r.daf_end

----------------------------------------------------------------------------
(* the transaction of caller p's delete_assignment_daf ends in this step   *)
(* and the call returns True                                               *)
RemoveEndsTrue(p) ==
    /\ pc[p] = "txn"
    /\ pc'[p] = "done"
    /\ loc[p].op = "delete_assignment_daf"
    /\ hist'[p].removed # {}

(* the call changed or removed a stored row, and no row it wrote or left   *)
(* under the record's id covers the unit                                   *)
RemoveTookEffect(p) ==
    /\ rows' # rows
    /\ \A x \in rows' :
          (x.id = loc[p].id \/ x \notin rows) =>
              ~(x.masechet = loc[p].record.masechet /\ loc[p].target \in Units(x))

(* two callers' delete_assignment_daf calls on one record, for different   *)
(* units, have both returned True and no other call was made: neither unit *)
(* is covered                                                              *)
BothRemovedStayRemoved ==
    \A p \in Callers, q \in Callers :
        \A a \in hist[p].removed, b \in hist[q].removed :
            (/\ p # q
             /\ a[1] = b[1]
             /\ a[3] # b[3]
             /\ \A o \in Callers \ {p, q} : pc[o] = "idle") =>
                /\ <<a[2], a[3]>> \notin Covered(rows)
                /\ <<b[2], b[3]>> \notin Covered(rows)

(* C26: also between parallel callers, whenever delete_assignment_daf(id,  *)
(* t) returns True the call changed or removed a stored row and unit t is  *)
(* covered by no row derived from the record afterwards; and when two      *)
(* callers' calls on one record for different units have both returned     *)
(* True, neither unit is covered once both have finished.                  *)
C26_RemoveTrueMeansRemoved ==
    /\ [][\A p \in Callers : RemoveEndsTrue(p) => RemoveTookEffect(p)]_vars
    /\ []BothRemovedStayRemoved

----------------------------------------------------------------------------
(* the ids that were stored once and are stored no longer *)
DeadIds == ever \ IdsOf(rows)

(* every call on an id that is stored no longer finds nothing and leaves   *)
(* the table and the id sequence as they are; the id sequence is past it   *)
DeadIdsFindNothing ==
    \A i \in DeadIds :
        /\ i <= seq
        /\ GetAssignment(rows, i) = NoRow
        /\ \A p \in UpdatePayloads :
              LET o == UpdateAssignment(rows, seq, i, p)
              IN  o.err = "none" /\ o.ret = NoRow /\ o.rows = rows /\ o.seq = seq
        /\ \A t \in Dafs, learned \in BOOLEAN :
              LET o == UpdateAssignmentDaf(rows, seq, i, t, learned)
              IN  o.err = "none" /\ o.rets = {} /\ o.rows = rows /\ o.seq = seq
        /\ LET o == DeleteAssignment(rows, seq, i)
           IN  o.err = "none" /\ ~o.ret /\ o.rows = rows /\ o.seq = seq
        /\ \A t \in Dafs :
              LET o == DeleteAssignmentDaf(rows, seq, i, t)
              IN  o.err = "none" /\ ~o.ret /\ o.rows = rows /\ o.seq = seq

(* C27: once the row with id i has been removed (by a mark-unit split, an  *)
(* interior remove-unit split, a whole delete or a replace-all), i is      *)
(* stored never again, and from then on get_assignment(i),                 *)
(* update_assignment(i, ...) and update_assignment_daf(i, ...) return      *)
(* None, delete_assignment(i) and delete_assignment_daf(i, ...) return     *)
(* False, and each of these calls leaves the store unchanged.              *)
C27_DeadIdStaysDead ==
    /\ []DeadIdsFindNothing
    /\ [][DeadIds \subseteq (ever' \ IdsOf(rows'))]_vars

(* an interior remove-unit split has consumed id 1: its two parts are      *)
(* stored under newer ids                                                  *)
C27_Witness ==
    /\ last.op = "delete_assignment_daf"
    /\ last.kind = "split"
    /\ 1 \in DeadIds
    /\ Cardinality(rows) = 2

----------------------------------------------------------------------------
(* the learned value of every covered (masechet, unit) *)
LearnedOf(table) ==
    UNION {{<<r.masechet, u, r.learned>> : u \in Units(r)} : r \in table}

(* marking a unit of a multi-unit record to the other value and the        *)
(* returned record back restores coverage and learned values and leaves    *)
(* the split rows; no mark-unit call from here lowers the number of rows   *)
MarkNeverMergesFromHere ==
    /\ \A r \in rows :
          \A t \in Units(r) :
              r.daf < r.daf_end =>
                  LET there == UpdateAssignmentDaf(rows, seq, r.id, t, ~r.learned)
                      parts == 1 + (IF r.daf < t THEN 1 ELSE 0)
                                 + (IF t < r.daf_end THEN 1 ELSE 0)
                  IN  /\ there.rets # {}
                      /\ Cardinality(there.rows) = Cardinality(rows) - 1 + parts
                      /\ \A x \in there.rets :
                            LET back == UpdateAssignmentDaf(there.rows, there.seq,
                                                            x.id, t, r.learned)
                            IN  /\ back.err = "none"
                                /\ LearnedOf(back.rows) = LearnedOf(rows)
                                /\ Cardinality(back.rows) = Cardinality(there.rows)
                                /\ IdsOf(back.rows) = IdsOf(there.rows)
                                /\ ~\E y \in back.rows :
                                      /\ y.masechet = r.masechet
                                      /\ y.daf = r.daf /\ y.daf_end = r.daf_end
    /\ \A id \in Ids, t \in Dafs, learned \in BOOLEAN :
          Cardinality(UpdateAssignmentDaf(rows, seq, id, t, learned).rows)
              >= Cardinality(rows)

(* C28: marking unit t of a multi-unit record [s,e] to the other learned   *)
(* value and then marking the returned [t,t] record back restores the      *)
(* coverage and the learned value of every unit, and leaves the two or     *)
(* three split rows where one [s,e] row was; no update_assignment_daf call *)
(* lowers the number of stored rows.                                       *)
C28_MarkNeverMerges ==
    /\ []MarkNeverMergesFromHere
    /\ [][last'.op = "update_assignment_daf" =>
              Cardinality(rows') >= Cardinality(rows)]_vars

(* a mark-unit has run in place on a single-unit row that lies next to a   *)
(* row of the same masechet and name, and both rows are still there        *)
C28_Witness ==
    /\ last.op = "update_assignment_daf"
    /\ last.kind = "single"
    /\ Cardinality(rows) = 2
    /\ \E a \in rows, b \in rows :
          /\ a.masechet = b.masechet /\ a.name = b.name
          /\ a.daf = a.daf_end /\ a.daf_end + 1 = b.daf
          /\ a.learned /\ ~b.learned

----------------------------------------------------------------------------
(* what replace_assignments and create_assignments of the empty list do in *)
(* the state at hand                                                       *)
ReplaceStoresTheList ==
    /\ \A ps \in PayloadLists :
          LET o == ReplaceAssignments(rows, seq, ps)
          IN  o.kind = "replaced" =>
                  /\ o.err = "none"
                  /\ o.ret = Len(ps)
                  /\ Cardinality(o.rows) = Len(ps)
                  /\ \A i \in 1..Len(ps) :
                        \E x \in o.rows :
                            x.id = seq + i /\ RecordOf(x) = ListRecords[ps][i]
                  /\ o.rows \cap rows = {}
                  /\ IdsOf(o.rows) \cap IdsOf(rows) = {}
    /\ LET o == ReplaceAssignments(rows, seq, <<>>)
       IN  o.kind = "replaced" /\ o.rows = {} /\ o.ret = 0 /\ o.seq = seq
    /\ LET o == CreateAssignments(rows, seq, <<>>)
       IN  o.err = "ValueError" /\ o.rows = rows /\ o.seq = seq /\ o.ids = {}

(* C29: a successful replace_assignments(payloads) leaves exactly one row  *)
(* per element, the i-th holding the normalised record of the i-th         *)
(* payload, none of the rows stored before, and returns the number of      *)
(* elements; the empty list succeeds, empties the table and returns 0,     *)
(* while create_assignments of the empty list raises ValueError and        *)
(* changes nothing.                                                        *)
C29_ReplaceStoresExactlyTheList == []ReplaceStoresTheList

(* a replace-all with the empty list has emptied a table that held rows *)
C29_Witness ==
    /\ last.op = "replace_assignments"
    /\ last.kind = "replaced"
    /\ rows = {}
    /\ ever # {}

====
